---- MODULE Spec2Model ----
(***************************************************************************)
(* The worker side of py4cl (src/py4cl.py): the value encoder, the framed  *)
(* stream codec and the reentrant message dispatch loop.                   *)
(*                                                                         *)
(* The worker blocks only in reads of its input stream.  One step of the   *)
(* model is everything the worker does between two blocking reads of a     *)
(* command byte: it reads one command, runs the whole branch of            *)
(* message_dispatch_loop for it, and stops either back at the read of the  *)
(* same loop instance, or at the read of a new loop instance that          *)
(* callback_func started, or with the process ended.                       *)
(*                                                                         *)
(* Text is a sequence of pieces.  A piece is a string: a backslash, a      *)
(* double quote or a newline always is a piece of its own, any other run   *)
(* of characters may be written as one piece.                              *)
(***************************************************************************)
EXTENDS Integers, Sequences, FiniteSets, TLC

\* Most message_dispatch_loop instances alive at once (the Python call stack
\* has no such limit short of the recursion limit).
MaxDepth == 3
\* Most handles next(async_handle) hands out in a run.
MaxHandle == 2
\* Most callbacks one evaluated expression, statement or function makes.
MaxCallbacks == 1
\* Longest list of pairs an s command carries.
MaxSetLen == 2
\* The count of responses written at end of input is kept modulo EofWrap.
EofWrap == 2
\* Most elements of a list, tuple or dict that is encoded on its own.
MaxElts == 2
\* Longest text (but for one of LongLen characters) framed on its own.
MaxStrLen == 3
LongLen == 12
\* Most positional arguments, and most keyword arguments, of a call whose
\* arguments are flattened and split on their own.
MaxArgs == 2
MaxKwargs == 2

----------------------------------------------------------------------------
(* Values of the evaluation engine.  k is the Python type, i the number of *)
(* an int (or 1/0 of a bool), s the text of a str, the name of a Symbol or *)
(* the message of an exception object.                                     *)

Val(k, i, s) == [k |-> k, i |-> i, s |-> s]
IntV(i) == Val("int", i, <<>>)
NoneV == Val("NoneType", 0, <<>>)
BoolV(b) == Val("bool", IF b THEN 1 ELSE 0, <<>>)
StrV(s) == Val("str", 0, s)
SymbolV(s) == Val("Symbol", 0, s)
\* an instance of Exception (or of a subclass) with str(err) = s
ExcV(s) == Val("Exception", 0, s)
\* numpy.array(5): an ndarray with ndim = 0 and shape = ()
Array0 == Val("ndarray0", 0, <<>>)
\* an object of a type the lispifiers table has no entry for
ObjectV == Val("object", 0, <<>>)
\* the float i.0
FloatV(i) == Val("float", i, <<>>)
\* complex(re, im) with whole parts
ComplexV(re, im) == [k |-> "complex", re |-> re, im |-> im]
\* a list, a tuple: their elements in order
ListV(elts) == [k |-> "list", elts |-> elts]
TupleV(elts) == [k |-> "tuple", elts |-> elts]
\* a dict: its (key, value) items in order
DictV(items) == [k |-> "dict", items |-> items]
\* an ndarray with ndim >= 1: data is the array as nested sequences, ndim
\* deep, of numpy integers
ArrayV(ndim, data) == [k |-> "ndarray", ndim |-> ndim, data |-> data]

\* Messages of the errors the interpreter raises.
Boom == <<"boom">>
IndexMsg == <<"tuple index out of range">>
NameErrPre == <<"name '">>
NameErrPost == <<"' is not defined">>
IntErr == <<"invalid literal for int() with base 10: 'a", "\\", "n'">>
UnpackMsg == <<"not enough values to unpack (expected 2, got 1)">>
PlusMsg == <<"unsupported operand type(s) for +: 'NoneType' and 'int'">>
UnknownPrefix == <<"Unknown message type '">>

\* An exception in flight: cls is "Exception" for every class the clause
\* `except Exception` catches, "SystemExit" for the one sys.exit raises.
Raised(cls, msg) == [cls |-> cls, msg |-> msg]
NoError == Raised("none", <<>>)

----------------------------------------------------------------------------
(* Value Encoder: lispify and the lispifiers table.                        *)

Digit(d) == CASE d = 0 -> "0" [] d = 1 -> "1" [] d = 2 -> "2" [] d = 3 -> "3"
              [] d = 4 -> "4" [] d = 5 -> "5" [] d = 6 -> "6" [] d = 7 -> "7"
              [] d = 8 -> "8" [] d = 9 -> "9"

RECURSIVE NatStr(_)
NatStr(n) == IF n < 10 THEN <<Digit(n)>> ELSE NatStr(n \div 10) \o <<Digit(n % 10)>>

\* str of an int
IntStr(n) == IF n < 0 THEN <<"-">> \o NatStr(0 - n) ELSE NatStr(n)

\* x.replace("\\", "\\\\").replace('"', '\\"')
RECURSIVE Escape(_)
Escape(s) ==
    IF s = <<>> THEN <<>>
    ELSE (IF Head(s) = "\\" THEN <<"\\", "\\">>
          ELSE IF Head(s) = "\"" THEN <<"\\", "\"">>
          ELSE <<Head(s)>>) \o Escape(Tail(s))

\* The outcome of an encoding: the text, or the error that escaped lispify.
Encoded(text) == [ok |-> TRUE, text |-> text, err |-> NoError]
EncodeFails(err) == [ok |-> FALSE, text |-> <<>>, err |-> err]

RECURSIVE lispify_aux(_)
RECURSIVE JoinEncoded(_)
RECURSIVE JoinItems(_)
RECURSIVE nested(_, _)
RECURSIVE JoinNested(_, _)

\* The join of an element's encoding h with that of the elements after it,
\* t; last: there are none.  The first encoding that raised is the outcome.
Joined(h, t, last) ==
    IF ~h.ok THEN h
    ELSE IF ~t.ok THEN t
    ELSE IF last THEN h
    ELSE Encoded(h.text \o <<" ">> \o t.text)

\* before + j + after, or the error that ended j
Wrapped(before, j, after) ==
    IF j.ok THEN Encoded(before \o j.text \o after) ELSE j

\* " ".join(lispify_aux(elt) for elt in x) of a sequence of values
JoinEncoded(elts) ==
    IF elts = <<>> THEN Encoded(<<>>)
    ELSE Joined(lispify_aux(Head(elts)), JoinEncoded(Tail(elts)), Tail(elts) = <<>>)

\* lispifiers[tuple]
lispify_tuple(elts) == Wrapped(<<"(">>, JoinEncoded(elts), <<")">>)

\* lispifiers[list]
lispify_list(elts) == Wrapped(<<"#", "(">>, JoinEncoded(elts), <<")">>)

lispify_complex_Whole(x) ==
    Encoded(<<"#", "C", "(">> \o IntStr(x.re) \o <<" ">> \o IntStr(x.im) \o <<")">>)

\* lispifiers[complex]: x.real and x.imag are floats
lispify_complex(x) ==
    Wrapped(<<"#", "C", "(">>,
            Joined(lispify_aux(FloatV(x.re)), lispify_aux(FloatV(x.im)), FALSE),
            <<")">>)

\* "(setf (gethash {} table) {})".format(key, value)
setf_form(key, value) ==
    IF ~key.ok THEN key
    ELSE IF ~value.ok THEN value
    ELSE Encoded(<<"(setf (gethash ">> \o key.text \o <<" table) ">>
                 \o value.text \o <<")">>)

\* " ".join("(setf (gethash {} table) {})".format(lispify(key),
\* lispify(value)) for key, value in x.items())
JoinItems(items) ==
    IF items = <<>> THEN Encoded(<<>>)
    ELSE Joined(setf_form(lispify_aux(Head(items)[1]), lispify_aux(Head(items)[2])),
                JoinItems(Tail(items)), Tail(items) = <<>>)

\* lispifiers[dict]
lispify_dict(items) ==
    Wrapped(<<"#.(let ((table (make-hash-table :test 'equal))) ">>,
            JoinItems(items), <<" table)">>)

\* " ".join of nested(obj[i,...]) over the rows of an array
JoinNested(rows, ndim) ==
    IF rows = <<>> THEN Encoded(<<>>)
    ELSE Joined(nested(Head(rows), ndim), JoinNested(Tail(rows), ndim), Tail(rows) = <<>>)

\* nested(obj) of lispify_ndarray for an array of ndim dimensions: the
\* elements of a rank 1 array are numpy numbers, which str encodes; with
\* ndim = 0 obj.shape[0] reads the empty shape and raises IndexError.
nested(data, ndim) ==
    IF ndim = 1
    THEN Wrapped(<<"(">>, JoinEncoded([i \in 1..Len(data) |-> IntV(data[i])]), <<")">>)
    ELSE IF ndim = 0 THEN EncodeFails(Raised("Exception", IndexMsg))
    ELSE Wrapped(<<"(">>, JoinNested(data, ndim - 1), <<")">>)

\* lispify_ndarray: "#{:d}A".format(obj.ndim) + nested(obj).  For a rank 0
\* array nested(obj) raises IndexError, which the `except KeyError` of
\* lispify_aux does not catch.
lispify_ndarray(obj) ==
    IF obj.k = "ndarray0" THEN nested(<<>>, 0)
    ELSE Wrapped(<<"#">> \o IntStr(obj.ndim) \o <<"A">>, nested(obj.data, obj.ndim), <<>>)

lispify_aux(obj) ==
    CASE obj.k = "bool" -> Encoded(IF obj.i = 1 THEN <<"T">> ELSE <<"N","I","L">>)
      [] obj.k = "NoneType" -> Encoded(<<"N","I","L">>)
      [] obj.k = "int" -> Encoded(IntStr(obj.i))
      [] obj.k = "str" -> Encoded(<<"\"">> \o Escape(obj.s) \o <<"\"">>)
      [] obj.k = "Symbol" -> Encoded(obj.s)
      [] obj.k = "ndarray0" -> lispify_ndarray(obj)
      [] obj.k = "ndarray" -> lispify_ndarray(obj)
      [] obj.k = "float" -> Encoded(IntStr(obj.i) \o <<".", "0">>)
      [] obj.k = "complex" -> lispify_complex(obj)
      [] obj.k = "list" -> lispify_list(obj.elts)
      [] obj.k = "tuple" -> lispify_tuple(obj.elts)
      [] obj.k = "dict" -> lispify_dict(obj.items)
      \* KeyError: not a number, so "Another unknown type"
      [] OTHER -> Encoded(<<"N","I","L">>)

lispify(obj) == lispify_aux(obj)

----------------------------------------------------------------------------
(* Framed Stream Codec, sending side.  What the worker writes is a         *)
(* sequence of tokens: a marker byte, or a frame (the decimal length of    *)
(* the text, a newline, the text).                                         *)

\* len(value_str): the characters of a text
RECURSIVE TextLen(_)
TextLen(text) == IF text = <<>> THEN 0 ELSE Len(Head(text)) + TextLen(Tail(text))

Mark(b) == [t |-> "mark", b |-> b, text |-> <<>>]
Frame(text) == [t |-> "frame", b |-> "", text |-> text]

\* The outcome of a piece of worker code that writes: what it wrote, and
\* the exception that left it (NoError when it returned).
Wrote(out, err) == [out |-> out, err |-> err]

\* send_value once lispify(value) has produced enc
send_encoded(enc) ==
    IF enc.ok THEN Wrote(<<Frame(enc.text)>>, NoError) ELSE Wrote(<<>>, enc.err)

send_value(value) == send_encoded(lispify(value))

\* The marker b is written, then send_value runs with outcome s.
Marked(b, s) == Wrote(<<Mark(b)>> \o s.out, s.err)

\* return_error(err) with str(err) = msg: the marker, then the text as a str
return_error(msg) == Marked("e", send_value(StrV(msg)))

return_value(value) ==
    IF value.k = "Exception" THEN return_error(value.s)
    ELSE Marked("r", send_value(value))

----------------------------------------------------------------------------
(* State.                                                                  *)

VARIABLES
    status,         \* "running", or how the process ended: "quit" (the q
                    \* branch's sys.exit(0)), "sysexit" (SystemExit raised by
                    \* evaluated code), "returned" (the main loop returned)
    pending,        \* the Python call stack: one record per loop instance
                    \* that is suspended inside callback_func, outermost
                    \* first; the instance now reading is on top of them
    eval_locals,    \* the namespace
    async_results,  \* handle -> stored result
    async_handle,   \* the next value of itertools.count(0)
    closed,         \* the host has closed the worker's input stream
    eofCount,       \* responses written at end of input, modulo EofWrap
    issued,         \* host side: the handles received, in order
    held,           \* host side: handles received and not yet retrieved
    returned,       \* host side: handle -> what its a call left (its value,
                    \* or the Exception that left it), until it is retrieved
    bound,          \* name -> the value the last s or x bound it to
    wrote,          \* what the last step wrote to write_stream
    ev,             \* what the last step did (see Event)
    pc,             \* "main" while the dispatcher runs; otherwise the place
                    \* in the function that is run on its own (see Units)
    given,          \* the arguments of the function that is run on its own
    got,            \* what that function has produced so far
    sys_stdout      \* sys.stdout: "redirect_stream" or "write_stream"

\* The state of the dispatcher, and the state of a function run on its own.
loopvars == <<status, pending, eval_locals, async_results, async_handle, closed,
              eofCount, issued, held, returned, bound, wrote, ev>>
unitvars == <<pc, given, got, sys_stdout>>

vars == <<status, pending, eval_locals, async_results, async_handle, closed,
          eofCount, issued, held, returned, bound, wrote, ev,
          pc, given, got, sys_stdout>>

Names == {"x"}
Unbound == Val("unbound", 0, <<>>)

\* The loop instances alive: the suspended ones and the one reading.
Frames == IF status = "running" THEN Len(pending) + 1 ELSE 0

----------------------------------------------------------------------------
(* Evaluated code.  The evaluator is outside the repository; a piece of    *)
(* code is described by what it does to the worker: it calls               *)
(* _py4cl_callback cbs times, one call after the other, and then ends as   *)
(* its kind k says:                                                        *)
(*   "value"        evaluates to the value v                               *)
(*   "name"         evaluates the name n                                   *)
(*   "plus1"        evaluates n + 1                                        *)
(*   "raise"        raises Exception("boom")                               *)
(*   "exit"         raises SystemExit                                      *)
(*   "badcallback"  calls _py4cl_callback(0, numpy.array(5))               *)
(*   "assign"       the statement n = v                                    *)
(*   "assigncb"     the statement n = <what its last callback returned>    *)

Prog(cbs, k, n, v) == [cbs |-> cbs, k |-> k, n |-> n, v |-> v]

\* How a piece of code ended: the exception that left it (NoError: none),
\* its value, the namespace it left and what it wrote on the way.
Outcome(err, val, ns, out) == [err |-> err, val |-> val, ns |-> ns, out |-> out]

NameError(n) == Raised("Exception", NameErrPre \o <<n>> \o NameErrPost)

\* callback_func up to its call of message_dispatch_loop: allargs is args
\* (no keywords), and the c message carries lispify((ident, allargs)).
callback_func(ident, args) ==
    Marked("c", send_encoded(Wrapped(<<"(">>,
                                     Joined(lispify_aux(IntV(ident)), lispify_tuple(args),
                                            FALSE),
                                     <<")">>)))

\* Code that ends where a writer it called ended: with the writer's
\* exception, having written what the writer wrote.
Ended(w, ns) == Outcome(w.err, NoneV, ns, w.out)

\* eval / exec / function(*args, **kwargs) of a piece of code that has made
\* all its callbacks; cbval is what the last of them returned.
Terminal(prog, cbval, ns) ==
    CASE prog.k = "value" -> Outcome(NoError, prog.v, ns, <<>>)
      [] prog.k = "name" ->
            IF ns[prog.n] = Unbound THEN Outcome(NameError(prog.n), NoneV, ns, <<>>)
            ELSE Outcome(NoError, ns[prog.n], ns, <<>>)
      [] prog.k = "plus1" ->
            IF ns[prog.n] = Unbound THEN Outcome(NameError(prog.n), NoneV, ns, <<>>)
            ELSE IF ns[prog.n].k = "int"
                 THEN Outcome(NoError, IntV(ns[prog.n].i + 1), ns, <<>>)
                 ELSE Outcome(Raised("Exception", PlusMsg), NoneV, ns, <<>>)
      [] prog.k = "raise" -> Outcome(Raised("Exception", Boom), NoneV, ns, <<>>)
      [] prog.k = "exit" -> Outcome(Raised("SystemExit", <<>>), NoneV, ns, <<>>)
      [] prog.k = "badcallback" -> Ended(callback_func(0, <<Array0>>), ns)
      [] prog.k = "assign" ->
            Outcome(NoError, NoneV, [ns EXCEPT ![prog.n] = prog.v], <<>>)
      [] prog.k = "assigncb" ->
            Outcome(NoError, NoneV, [ns EXCEPT ![prog.n] = cbval], <<>>)

----------------------------------------------------------------------------
(* message_dispatch_loop.                                                  *)

\* What a step did.
\*   read     the command byte the step read ("?" an unrecognized byte,
\*            "eof" the empty read at end of input, "" no read)
\*   cmd      the command whose branch the step ran or resumed
\*   at       the depth of the loop instance that read cmd
\*   phase    "done": the branch ended and its loop reads again;
\*            "callback": the branch is suspended in callback_func;
\*            "end": the process ended
\*   stage    where the step's exception, if any, was raised: "length"
\*            (the int() of recv_string), "payload" (the eval of
\*            recv_value), "encode" (the lispify of return_value's
\*            send_value), "branch" (anything else in the branch)
\*   raised   the class of the exception that left the branch (caught by
\*            the loop's handler, or SystemExit), "none" if none
\*   resp     the shape of what was written for cmd so far: its outcome
\*            markers "r" and "e" and "frame" for each frame, in order
\*   val      the value the branch's code produced, if it produced one
\*   h        the handle an a command allocated or an R command asked for
\*   expr, n  "name" or "plus1" and the name, when the branch evaluated
\*            that name or that name + 1; "" otherwise
\*   frames0  the loop instances alive before the step
\*   taken    an R command popped an entry of async_results
\*   due      an R command asked for a handle whose call had ended and
\*            whose result had not been retrieved; owed is that result
\*   setlist  the payload of an s command, ns0 the namespace it found
\*   kept     the step left the suspended loop instances, async_results
\*            and async_handle as they were; nskept: the namespace too
Event(read, cmd, at, phase, stage, err, resp, val, h) ==
    [read |-> read, cmd |-> cmd, at |-> at, phase |-> phase, stage |-> stage,
     raised |-> err.cls, resp |-> resp, val |-> val, h |-> h,
     expr |-> "", n |-> "", frames0 |-> 0, taken |-> FALSE, due |-> FALSE,
     owed |-> NoneV, kept |-> TRUE, nskept |-> TRUE, setlist |-> <<>>, ns0 |-> <<>>]
NoEvent == Event("", "", 0, "done", "branch", NoError, <<>>, NoneV, -1)

\* The shape of a sequence of tokens.
Shape(out) == [j \in 1..Len(out) |-> IF out[j].t = "mark" THEN out[j].b ELSE "frame"]

\* The state a step leaves behind.
Eff(st, pend, ns, res, hd, out, e) ==
    [status |-> st, pending |-> pend, ns |-> ns, results |-> res,
     handle |-> hd, wrote |-> out, ev |-> e]

\* A suspended branch: its command, its handle (a only), the rest of its
\* code and the shape of what its loop instance has written for it.
Suspended(cmd, h, prog, resp) == [cmd |-> cmd, h |-> h, prog |-> prog, resp |-> resp]

\* async_results[handle] = value
Store_Lost(res, handle, value) == res

Store(res, handle, value) ==
    [k \in (DOMAIN res) \cup {handle} |-> IF k = handle THEN value ELSE res[k]]

except_clause_Silent(resp, err) == resp

\* The `except Exception as e: return_error(e)` clause of the loop, entered
\* with resp already written for the command.
except_clause(resp, err) == resp \o return_error(err.msg).out

async_outcome_Value(o) == o.val

\* What the a branch stores: lines 203-209, the function's value or, caught
\* there, the Exception it raised.
async_outcome(o) == IF o.err.cls = "Exception" THEN ExcV(o.err.msg) ELSE o.val

\* The branch of cmd has written r in response, after err was raised at
\* stage (NoError: nothing was), and its loop reads again.
Responded(read, cmd, at, h, resp, o, base, res, hd, w0, stage, err, value, r) ==
    Eff("running", base, o.ns, res, hd, w0 \o o.out \o r,
        Event(read, cmd, at, "done", stage, err, resp \o Shape(r), value, h))

\* What return_value and, if it raised, the loop's handler wrote.
handled(rv) == IF rv.err = NoError THEN rv.out ELSE except_clause(rv.out, rv.err)

\* return_value(value) has ended as rv says.
Returned(read, cmd, at, h, resp, o, base, res, hd, w0, value, rv) ==
    Responded(read, cmd, at, h, resp, o, base, res, hd, w0,
              IF rv.err = NoError THEN "branch" ELSE "encode", rv.err, value, handled(rv))

\* The end of the branch of cmd once its code has ended with outcome o:
\* lines 160, 164, 192 (return_value), 203-209 (store), 226-227 (handler).
\* read is the byte this step read, at the depth of cmd's loop instance,
\* base the suspended instances below it, w0 what the step wrote before.
Finish(read, cmd, at, h, resp, o, base, res, hd, w0) ==
    IF o.err.cls = "SystemExit"
    THEN Eff(IF read = "q" THEN "quit" ELSE "sysexit", <<>>, o.ns, res, hd, w0 \o o.out,
             Event(read, cmd, at, "end", "branch", o.err, resp, NoneV, h))
    ELSE IF cmd = "a"
    THEN LET stored == async_outcome(o)
         IN  Eff("running", base, o.ns, Store(res, h, stored), hd, w0 \o o.out,
                 Event(read, cmd, at, "done", "branch", o.err, resp, stored, h))
    ELSE IF o.err.cls = "Exception"
    THEN Responded(read, cmd, at, h, resp, o, base, res, hd, w0, "branch", o.err, NoneV,
                   except_clause(<<>>, o.err))
    ELSE Returned(read, cmd, at, h, resp, o, base, res, hd, w0,
                  IF cmd = "x" THEN NoneV ELSE o.val,
                  return_value(IF cmd = "x" THEN NoneV ELSE o.val))

\* The code of the branch of cmd from the point prog describes: its next
\* callback (callback_func writes the c message and calls
\* message_dispatch_loop, line 253), or its end, o being how the code ends
\* once it has made all its callbacks.
Run(read, cmd, at, h, prog, o, resp, base, ns, res, hd, w0) ==
    LET eff ==
            IF prog.cbs > 0
            THEN LET cb == callback_func(0, <<>>)
                 IN  Eff("running",
                         Append(base, Suspended(cmd, h, [prog EXCEPT !.cbs = prog.cbs - 1],
                                                resp)),
                         ns, res, hd, w0 \o cb.out,
                         Event(read, cmd, at, "callback", "branch", NoError, resp, NoneV, h))
            ELSE Finish(read, cmd, at, h, resp, o, base, res, hd, w0)
    IN  [eff EXCEPT !.ev.expr = IF prog.k \in {"name", "plus1"} THEN prog.k ELSE "",
                    !.ev.n = IF prog.k \in {"name", "plus1"} THEN prog.n ELSE ""]

----------------------------------------------------------------------------
(* What the host sends.                                                    *)

\* Values of literals in evaluated code, of s pairs and of r payloads.
LitVals == {IntV(5), Array0, ExcV(Boom)}
SetVals == {IntV(5), IntV(7)}
RetVals == {IntV(5), IntV(7)}

\* Code that makes no callback, and code that makes some first (functions
\* and statements do).
PlainExprs ==
    {Prog(0, "value", "x", v) : v \in LitVals}
    \cup {Prog(0, k, n, NoneV) : k \in {"name", "plus1"}, n \in Names}
    \cup {Prog(0, k, "x", NoneV) : k \in {"raise", "exit", "badcallback"}}
PlainFuncs ==
    {Prog(0, "value", "x", v) : v \in {IntV(5), Array0}}
    \cup {Prog(0, k, "x", NoneV) : k \in {"raise", "exit"}}
CallingFuncs ==
    {Prog(c, k, "x", IF k = "value" THEN Array0 ELSE NoneV) :
        c \in 1..MaxCallbacks, k \in {"value", "raise"}}
PlainStmts ==
    {Prog(0, "assign", n, v) : n \in Names, v \in SetVals}
    \cup {Prog(0, k, "x", NoneV) : k \in {"raise", "exit"}}
CallingStmts ==
    {Prog(c, "assigncb", n, NoneV) : c \in 1..MaxCallbacks, n \in Names}

\* Code may call back only while another loop instance fits the bound.
Allowed(plain, calling) ==
    plain \cup (IF Len(pending) + 1 < MaxDepth THEN calling ELSE {})

\* A pair of an s payload, or an item that does not unpack into two.
Pair(n, v) == [ok |-> TRUE, n |-> n, v |-> v]
Malformed == [ok |-> FALSE, n |-> "x", v |-> NoneV]
SetItems == {Pair(n, v) : n \in Names, v \in SetVals} \cup {Malformed}
SetLists == UNION {[1..len -> SetItems] : len \in 0..MaxSetLen}

\* Commands that carry a framed payload, and those whose payload recv_value
\* evaluates before the branch does anything else.
FramedCmds == {"e", "x", "r", "f", "a", "R", "s"}
ValueCmds == {"r", "f", "a", "R", "s"}

----------------------------------------------------------------------------
(* The steps.                                                              *)

Reading == status = "running" /\ ~closed
Depth == Len(pending) + 1

\* A step that leaves eff behind and the names bound as b says.  The host
\* has a handle from the moment its r-marked response is written, and has
\* retrieved it once an R command has popped it.
Step(result, b) ==
    \E eff \in {result} :
    /\ status' = eff.status
    /\ pending' = eff.pending
    /\ eval_locals' = eff.ns
    /\ async_results' = eff.results
    /\ async_handle' = eff.handle
    /\ wrote' = eff.wrote
    /\ ev' = [eff.ev EXCEPT
                !.frames0 = Frames,
                !.kept = eff.pending = pending /\ eff.results = async_results
                         /\ eff.handle = async_handle,
                !.nskept = eff.ns = eval_locals,
                !.due = eff.ev.read = "R" /\ eff.ev.h \in DOMAIN returned,
                !.owed = IF eff.ev.read = "R" /\ eff.ev.h \in DOMAIN returned
                         THEN returned[eff.ev.h] ELSE NoneV]
    /\ issued' = IF eff.ev.read = "a" /\ eff.ev.h >= 0 THEN Append(issued, eff.ev.h)
                 ELSE issued
    /\ held' = (held \cup (IF eff.ev.read = "a" /\ eff.ev.h >= 0 THEN {eff.ev.h} ELSE {}))
               \ (IF eff.ev.taken THEN {eff.ev.h} ELSE {})
    /\ returned' = IF eff.ev.cmd = "a" /\ eff.ev.phase = "done" /\ eff.ev.h >= 0
                   THEN [k \in (DOMAIN returned) \cup {eff.ev.h} |->
                            IF k = eff.ev.h THEN eff.ev.val ELSE returned[k]]
                   ELSE IF eff.ev.taken
                   THEN [k \in (DOMAIN returned) \ {eff.ev.h} |-> returned[k]]
                   ELSE returned
    /\ bound' = b
    /\ UNCHANGED <<closed, eofCount>>
    /\ UNCHANGED unitvars

\* A command that ran no code has been answered with r.
Answered(read, stage, err, r) ==
    Eff("running", pending, eval_locals, async_results, async_handle, r,
        Event(read, read, Depth, "done", stage, err, Shape(r), NoneV, -1))

Caught_Fatal(read, stage, err) ==
    Eff("error", <<>>, eval_locals, async_results, async_handle, <<>>,
        Event(read, read, Depth, "end", stage, err, <<>>, NoneV, -1))

\* The loop's handler for an exception raised before the branch's code ran.
Caught(read, stage, err) ==
    Answered(read, stage, err, except_clause(<<>>, err))

\* e: eval(recv_string(), ...) then return_value(result)
Evaluate(prog) ==
    /\ Reading
    /\ \E o \in {Terminal(prog, NoneV, eval_locals)} :
          Step(Run("e", "e", Depth, -1, prog, o, <<>>, pending, eval_locals,
                   async_results, async_handle, <<>>), bound)

\* x: exec(recv_string(), ...) then return_value(None)
Execute(prog) ==
    /\ Reading
    /\ \E o \in {Terminal(prog, NoneV, eval_locals)} :
          Step(Run("x", "x", Depth, -1, prog, o, <<>>, pending, eval_locals,
                   async_results, async_handle, <<>>),
               IF prog.cbs = 0 /\ prog.k = "assign" THEN [bound EXCEPT ![prog.n] = prog.v]
               ELSE bound)

Quit_Caught ==
    /\ Reading
    /\ Step(Caught("q", "branch", Raised("Exception", <<"0">>)), bound)

\* q: sys.exit(0)
Quit ==
    /\ Reading
    /\ Step(Finish("q", "q", Depth, -1, <<>>,
                   Outcome(Raised("SystemExit", <<>>), NoneV, eval_locals, <<>>),
                   pending, async_results, async_handle, <<>>), bound)

unwind_Stays(pend) == pend

\* The suspended loop instances once the one on top has returned (line 170).
unwind(pend) == SubSeq(pend, 1, Len(pend) - 1)

Return_Ignored(v) ==
    /\ Reading
    /\ pending = <<>>
    /\ Step(Eff("running", <<>>, eval_locals, async_results, async_handle, <<>>,
                Event("r", "r", Depth, "done", "branch", NoError, <<>>, v, -1)),
            bound)

\* r: return recv_value().  The loop instance returns v: to callback_func,
\* whose caller goes on, or, in the outermost instance, to the module's
\* last line.
Return(v) ==
    /\ Reading
    /\ \/ /\ pending = <<>>
          /\ Step(Eff("returned", <<>>, eval_locals, async_results, async_handle, <<>>,
                      Event("r", "r", Depth, "end", "branch", NoError, <<>>, v, -1)),
                  bound)
       \/ /\ pending # <<>>
          /\ \E top \in {pending[Len(pending)]} :
             \E o \in {Terminal(top.prog, v, eval_locals)} :
                Step(Run("r", top.cmd, Len(pending), top.h, top.prog, o, top.resp,
                         unwind(pending), eval_locals, async_results, async_handle, <<>>),
                     IF top.prog.cbs = 0 /\ top.prog.k = "assigncb"
                     THEN [bound EXCEPT ![top.prog.n] = v]
                     ELSE bound)

\* f: return_value(function(*args, **kwargs))
Call(prog) ==
    /\ Reading
    /\ \E o \in {Terminal(prog, NoneV, eval_locals)} :
          Step(Run("f", "f", Depth, -1, prog, o, <<>>, pending, eval_locals,
                   async_results, async_handle, <<>>), bound)

AsyncCall_Reuse(prog) ==
    /\ Reading
    /\ async_handle < MaxHandle
    /\ \E handle \in {async_handle} :
       \E rv \in {return_value(IntV(handle))} :
       \E o \in {Terminal(prog, NoneV, eval_locals)} :
          Step(Run("a", "a", Depth, handle, prog, o, Shape(rv.out), pending, eval_locals,
                   async_results, async_handle, rv.out), bound)

\* a: handle = next(async_handle); return_value(handle); then the call,
\* whose result or Exception is stored.
AsyncCall(prog) ==
    /\ Reading
    /\ async_handle < MaxHandle
    /\ \E handle \in {async_handle} :
       \E rv \in {return_value(IntV(handle))} :
       \E o \in {Terminal(prog, NoneV, eval_locals)} :
          Step(Run("a", "a", Depth, handle, prog, o, Shape(rv.out), pending, eval_locals,
                   async_results, async_handle + 1, rv.out), bound)

popped_Kept(res, handle) == res

\* async_results once pop(handle) has removed the entry
popped(res, handle) == [k \in (DOMAIN res) \ {handle} |-> res[k]]

\* R: return_value(async_results.pop(handle)); a handle that is not a key
\* raises KeyError, whose str is the repr of the key.
Retrieve(handle) ==
    /\ Reading
    /\ Step(IF handle \in DOMAIN async_results
            THEN LET eff == Finish("R", "R", Depth, handle, <<>>,
                                   Outcome(NoError, async_results[handle], eval_locals, <<>>),
                                   pending, popped(async_results, handle), async_handle, <<>>)
                 IN  [eff EXCEPT !.ev.taken = TRUE]
            ELSE Finish("R", "R", Depth, handle, <<>>,
                        Outcome(Raised("Exception", IntStr(handle)), NoneV, eval_locals, <<>>),
                        pending, async_results, async_handle, <<>>),
            bound)

set_loop_Unbound(ns, setlist) == Outcome(NoError, BoolV(TRUE), ns, <<>>)

\* for name, value in setlist: eval_locals[name] = value
RECURSIVE set_loop(_, _)
set_loop(ns, setlist) ==
    IF setlist = <<>> THEN Outcome(NoError, BoolV(TRUE), ns, <<>>)
    ELSE IF ~Head(setlist).ok THEN Outcome(Raised("Exception", UnpackMsg), NoneV, ns, <<>>)
    ELSE set_loop([ns EXCEPT ![Head(setlist).n] = Head(setlist).v], Tail(setlist))

\* The names bound once an s command has gone through setlist: each pair
\* before the first item that is no pair rebinds its name.
RECURSIVE Rebound(_, _)
Rebound(b, setlist) ==
    IF setlist = <<>> \/ ~Head(setlist).ok THEN b
    ELSE Rebound([b EXCEPT ![Head(setlist).n] = Head(setlist).v], Tail(setlist))

SetVariables_Atomic(setlist) ==
    /\ Reading
    /\ \E o \in {IF \A i \in 1..Len(setlist) : setlist[i].ok
                 THEN set_loop(eval_locals, setlist)
                 ELSE Outcome(Raised("Exception", UnpackMsg), NoneV, eval_locals, <<>>)} :
       \E eff \in {Finish("s", "s", Depth, -1, <<>>, o, pending, async_results,
                          async_handle, <<>>)} :
          Step([eff EXCEPT !.ev.setlist = setlist, !.ev.ns0 = eval_locals],
               Rebound(bound, setlist))

\* s: the loop over the pairs, then return_value(True)
SetVariables(setlist) ==
    /\ Reading
    /\ \E o \in {set_loop(eval_locals, setlist)} :
       \E eff \in {Finish("s", "s", Depth, -1, <<>>, o, pending, async_results,
                          async_handle, <<>>)} :
          Step([eff EXCEPT !.ev.setlist = setlist, !.ev.ns0 = eval_locals],
               Rebound(bound, setlist))

\* The else branch: return_error("Unknown message type '{0}'".format(cmd_type))
unknown_type(byte) ==
    Answered(IF byte = <<>> THEN "eof" ELSE "?", "branch", NoError,
             return_error(UnknownPrefix \o byte \o <<"'">>).out)

Unknown ==
    /\ Reading
    /\ Step(unknown_type(<<"z">>), bound)

\* recv_string: int(sys.stdin.readline()) of the line "a\n" raises ValueError.
BadLength(cmd) ==
    /\ Reading
    /\ Step(Caught(cmd, "length", Raised("Exception", IntErr)), bound)

\* recv_value: the payload's eval raises (here the NameError of a name g).
BadPayload(cmd) ==
    /\ Reading
    /\ Step(Caught(cmd, "payload", NameError("g")), bound)

\* The host closes its end of the worker's input.
HostClose ==
    /\ Reading
    /\ closed' = TRUE
    /\ wrote' = <<>>
    /\ ev' = NoEvent
    /\ UNCHANGED <<status, pending, eval_locals, async_results, async_handle,
                   eofCount, issued, held, returned, bound>>
    /\ UNCHANGED unitvars

\* sys.stdin.read(1) at end of input returns "", which no branch matches.
ReadEof ==
    /\ status = "running"
    /\ closed
    /\ LET eff == unknown_type(<<>>)
       IN  /\ wrote' = eff.wrote
           /\ ev' = [eff.ev EXCEPT !.frames0 = Frames]
           /\ eofCount' = (eofCount + 1) % EofWrap
    /\ UNCHANGED <<status, pending, eval_locals, async_results, async_handle,
                   closed, issued, held, returned, bound>>
    /\ UNCHANGED unitvars

\* The module has been loaded: lines 16-19 (sys.stdout = redirect_stream),
\* 85-86 and 260-261.
Loaded ==
    /\ status = "running"
    /\ pending = <<>>
    /\ eval_locals = [n \in Names |-> Unbound]
    /\ async_results = [k \in {} |-> NoneV]
    /\ async_handle = 0
    /\ closed = FALSE
    /\ eofCount = 0
    /\ issued = <<>>
    /\ held = {}
    /\ returned = [k \in {} |-> NoneV]
    /\ bound = [n \in Names |-> Unbound]
    /\ wrote = <<>>
    /\ ev = NoEvent
    /\ given = <<>>
    /\ got = <<>>
    /\ sys_stdout = "redirect_stream"

Init ==
    /\ Loaded
    /\ pc = "main"

Next ==
    \/ \E prog \in PlainExprs : Evaluate(prog)
    \/ \E prog \in Allowed(PlainStmts, CallingStmts) : Execute(prog)
    \/ Quit
    \/ \E v \in RetVals : Return(v)
    \/ \E prog \in Allowed(PlainFuncs, CallingFuncs) : Call(prog)
    \/ \E prog \in Allowed(PlainFuncs, CallingFuncs) : AsyncCall(prog)
    \/ \E handle \in 0..MaxHandle : Retrieve(handle)
    \/ \E setlist \in SetLists : SetVariables(setlist)
    \/ Unknown
    \/ \E cmd \in FramedCmds : BadLength(cmd)
    \/ \E cmd \in ValueCmds : BadPayload(cmd)
    \/ HostClose
    \/ ReadEof

Spec == Init /\ [][Next]_vars

\* The worker is one thread that runs whenever its read returns: at end of
\* input read(1) returns at once, so the step that serves it is taken.
\* Nothing obliges the host to send a command.
FairSpec == Spec /\ WF_vars(ReadEof)

----------------------------------------------------------------------------
(* Units: functions of the worker run on their own, from the state the     *)
(* loaded module is in, on arguments drawn from small sets.  Text here is  *)
(* written one character a piece.                                          *)

\* Values that are encoded on their own.
EncAtoms ==
    {NoneV, BoolV(TRUE), BoolV(FALSE), IntV(1), IntV(2), IntV(-7), FloatV(3),
     ComplexV(3, 4), StrV(<<>>), StrV(<<"a", "\"", "b">>), StrV(<<"\\">>),
     SymbolV(<<"f", "o", "o">>), ObjectV, Array0,
     ArrayV(1, <<1, 2>>), ArrayV(2, <<(<<1, 2>>), (<<3, 4>>)>>)}
EncElts == {NoneV, IntV(1), IntV(2), StrV(<<"a">>), Array0, ListV(<<IntV(1)>>), TupleV(<<>>)}
EncSeqs == UNION {[1..len -> EncElts] : len \in 0..MaxElts}
EncValues ==
    EncAtoms
    \cup {ListV(e) : e \in EncSeqs}
    \cup {TupleV(e) : e \in EncSeqs}
    \cup {DictV(<<(<<StrV(<<"a">>), v>>)>>) : v \in EncElts}
    \cup {DictV(<<(<<StrV(<<"a">>), IntV(1)>>), (<<IntV(2), ListV(<<IntV(1)>>)>>)>>)}

\* lispify(v)
Encode(v) ==
    /\ pc = "start"
    /\ pc' = "encoded"
    /\ given' = v
    /\ got' = lispify(v)
    /\ UNCHANGED sys_stdout
    /\ UNCHANGED loopvars

\* The characters send_value writes for value_str = text: print(len(...))
\* writes the decimal length and a newline, write_stream.write the text.
FrameBytes_Delimited(text) == IntStr(TextLen(text)) \o <<"\n">> \o text \o <<"\n">>

FrameBytes(text) == IntStr(TextLen(text)) \o <<"\n">> \o text

\* sys.stdin.readline(): the characters up to the first newline, with it
\* (all of them if there is none), and the characters left in the stream.
readline(stream) ==
    LET ends == {i \in 1..Len(stream) : stream[i] = "\n"}
        last == IF ends = {} THEN Len(stream)
                ELSE CHOOSE i \in ends : \A j \in ends : i <= j
    IN  [line |-> SubSeq(stream, 1, last), rest |-> SubSeq(stream, last + 1, Len(stream))]

Digits == {"0", "1", "2", "3", "4", "5", "6", "7", "8", "9"}
DigitVal(c) == CHOOSE d \in 0..9 : Digit(d) = c

RECURSIVE DigitsVal(_)
DigitsVal(ds) ==
    IF ds = <<>> THEN 0 ELSE 10 * DigitsVal(SubSeq(ds, 1, Len(ds) - 1)) + DigitVal(ds[Len(ds)])

\* int(line) of a line of readline: the newline at its end is white space;
\* decimal digits are a number, anything else here raises ValueError.
int(line) ==
    LET body == IF line # <<>> /\ line[Len(line)] = "\n"
                THEN SubSeq(line, 1, Len(line) - 1) ELSE line
    IN  IF body # <<>> /\ \A i \in 1..Len(body) : body[i] \in Digits
        THEN [ok |-> TRUE, n |-> DigitsVal(body)]
        ELSE [ok |-> FALSE, n |-> 0]

\* recv_string on a stream of characters: the string read, and the stream
\* from the read cursor on.
recv_string(stream) ==
    LET l == readline(stream)
        length == int(l.line)
        upto == IF length.n < Len(l.rest) THEN length.n ELSE Len(l.rest)
    IN  IF length.ok
        THEN [ok |-> TRUE, value |-> SubSeq(l.rest, 1, upto),
              rest |-> SubSeq(l.rest, upto + 1, Len(l.rest))]
        ELSE [ok |-> FALSE, value |-> <<>>, rest |-> l.rest]

\* Texts framed on their own, and what follows them in the stream.
FrameChars == {"a", "1", "\n"}
FrameTexts ==
    UNION {[1..len -> FrameChars] : len \in 0..MaxStrLen}
    \cup {[i \in 1..LongLen |-> IF i = 2 THEN "\n" ELSE "a"]}
FrameRests == {<<>>, <<"e">>, <<"1", "\n">>}

\* send_value writes the frame of text; rest follows it in the stream.
SendFrame(text, rest) ==
    /\ pc = "start"
    /\ pc' = "sent"
    /\ given' = [text |-> text, rest |-> rest]
    /\ got' = FrameBytes(text) \o rest
    /\ UNCHANGED sys_stdout
    /\ UNCHANGED loopvars

\* recv_string reads what was written.
RecvFrame ==
    /\ pc = "sent"
    /\ pc' = "received"
    /\ got' = recv_string(got)
    /\ UNCHANGED <<given, sys_stdout>>
    /\ UNCHANGED loopvars

\* callback_func, lines 238-242: allargs = args, then for each item of
\* kwargs, allargs += (Symbol(":"+str(key)), value).  kwargs is the
\* sequence of its (key, value) items, key a text.
RECURSIVE allargs(_, _)
allargs(args, kwargs) ==
    IF kwargs = <<>> THEN args
    ELSE allargs(args \o <<SymbolV(<<":">> \o Head(kwargs)[1]), Head(kwargs)[2]>>,
                 Tail(kwargs))

\* kwargs[key] = value on a dict kept as the sequence of its items
setitem(kwargs, key, value) ==
    IF \E i \in 1..Len(kwargs) : kwargs[i][1] = key
    THEN [i \in 1..Len(kwargs) |-> IF kwargs[i][1] = key THEN <<key, value>> ELSE kwargs[i]]
    ELSE Append(kwargs, <<key, value>>)

\* The split of lines 177-186 from the element the iterator is at: a
\* Symbol is a keyword whose name is str(arg)[1:] and whose value is
\* next(it), which raises StopIteration when nothing is left.
RECURSIVE split_from(_, _, _)
split_from(it, args, kwargs) ==
    IF it = <<>> THEN [ok |-> TRUE, args |-> args, kwargs |-> kwargs]
    ELSE IF Head(it).k = "Symbol"
    THEN IF Tail(it) = <<>> THEN [ok |-> FALSE, args |-> args, kwargs |-> kwargs]
         ELSE split_from(Tail(Tail(it)), args,
                         setitem(kwargs,
                                 IF Head(it).s = <<>> THEN <<>> ELSE Tail(Head(it).s),
                                 Head(Tail(it))))
    ELSE split_from(Tail(it), Append(args, Head(it)), kwargs)

\* args = [], kwargs = {}, then the loop over allargs
split(all) == split_from(all, <<>>, <<>>)

\* Arguments that are flattened and split on their own.
ArgVals == {IntV(1), StrV(<<":", "k">>), SymbolV(<<"f", "o", "o">>)}
KwVals == {IntV(2), SymbolV(<<"v">>)}
ArgSeqs == UNION {[1..len -> ArgVals] : len \in 0..MaxArgs}
KwSeqs ==
    {kw \in UNION {[1..len -> {<<"k">>, <<"j">>} \X KwVals] : len \in 0..MaxKwargs} :
        \A i, j \in 1..Len(kw) : i # j => kw[i][1] # kw[j][1]}

\* callback_func builds allargs from args and kwargs.
Flatten(args, kwargs) ==
    /\ pc = "start"
    /\ pc' = "flattened"
    /\ given' = [args |-> args, kwargs |-> kwargs]
    /\ got' = allargs(args, kwargs)
    /\ UNCHANGED sys_stdout
    /\ UNCHANGED loopvars

\* The f/a branch splits what was built.
SplitArgs ==
    /\ pc = "flattened"
    /\ pc' = "split"
    /\ got' = split(got)
    /\ UNCHANGED <<given, sys_stdout>>
    /\ UNCHANGED loopvars

\* A call of one of the three writers: its function, the marker it writes,
\* the value it hands to send_value, and the exception send_value raised.
Writer(fn, mark, value) == [fn |-> fn, mark |-> mark, value |-> value, err |-> NoError]

\* What evaluated code ends with, and what it passes to a callback.
CodeVals == {IntV(5), Array0, ExcV(Boom)}
CallbackArgs == {<<>>, <<IntV(5)>>, <<Array0>>}

\* The loop reads a command and its code starts to run (lines 156-189), or
\* the nested loop reads an r and the code that called back runs on.
Dispatch ==
    /\ pc \in {"start", "reading"}
    /\ pc' = "evaluating"
    /\ given' = <<>>
    /\ got' = <<>>
    /\ UNCHANGED sys_stdout
    /\ UNCHANGED loopvars

\* The code calls _py4cl_callback(0, *args): callback_func is entered.
CodeCallsBack(args) ==
    /\ pc = "evaluating"
    /\ pc' = "try"
    /\ given' = Writer("callback_func", "c", TupleV(<<IntV(0), TupleV(args)>>))
    /\ got' = <<>>
    /\ UNCHANGED sys_stdout
    /\ UNCHANGED loopvars

\* The code ends with the value v: return_value(v) is entered, and enters
\* return_error when v is an exception object (lines 129-130).
CodeEnds(v) ==
    /\ pc = "evaluating"
    /\ pc' = "try"
    /\ given' = IF v.k = "Exception" THEN Writer("return_error", "e", StrV(v.s))
                ELSE Writer("return_value", "r", v)
    /\ got' = <<>>
    /\ UNCHANGED sys_stdout
    /\ UNCHANGED loopvars

\* The code raises: the loop's handler enters return_error (lines 226-227).
CodeRaises ==
    /\ pc = "evaluating"
    /\ pc' = "try"
    /\ given' = Writer("return_error", "e", StrV(Boom))
    /\ got' = <<>>
    /\ UNCHANGED sys_stdout
    /\ UNCHANGED loopvars

\* sys.stdout = write_stream (lines 118, 133, 245)
EnterTry ==
    /\ pc = "try"
    /\ pc' = "marker"
    /\ sys_stdout' = "write_stream"
    /\ UNCHANGED <<given, got>>
    /\ UNCHANGED loopvars

\* write_stream.write of the marker (lines 119, 134, 246)
WriteMarker ==
    /\ pc = "marker"
    /\ pc' = "send"
    /\ got' = <<Mark(given.mark)>>
    /\ UNCHANGED <<given, sys_stdout>>
    /\ UNCHANGED loopvars

\* send_value (lines 120, 135, 247): it writes the frame, or lispify raises
\* and control goes to the finally clause with the exception.
SendValue ==
    /\ pc = "send"
    /\ pc' = "finally"
    /\ \E s \in {send_value(given.value)} :
          /\ got' = got \o s.out
          /\ given' = [given EXCEPT !.err = s.err]
    /\ UNCHANGED sys_stdout
    /\ UNCHANGED loopvars

finally_clause_Skipped(stdout) == stdout

\* finally: sys.stdout = redirect_stream (lines 122, 137, 249)
finally_clause(stdout) == "redirect_stream"

\* The finally clause runs and the writer is left.  With no exception,
\* callback_func calls message_dispatch_loop (line 253) and the other two
\* return to the loop: a loop instance reads.  An exception raised in
\* callback_func goes to the code that called it; one raised in
\* return_value, to the loop's handler, which enters return_error.
Finally ==
    /\ pc = "finally"
    /\ sys_stdout' = finally_clause(sys_stdout)
    /\ IF given.err = NoError
       THEN pc' = "reading" /\ UNCHANGED given
       ELSE IF given.fn = "callback_func"
       THEN pc' = "evaluating" /\ UNCHANGED given
       ELSE pc' = "try" /\ given' = Writer("return_error", "e", StrV(given.err.msg))
    /\ UNCHANGED got
    /\ UNCHANGED loopvars

UnitInit ==
    /\ Loaded
    /\ pc = "start"

UnitNext ==
    \/ \E v \in EncValues : Encode(v)
    \/ \E text \in FrameTexts, rest \in FrameRests : SendFrame(text, rest)
    \/ RecvFrame
    \/ \E args \in ArgSeqs, kwargs \in KwSeqs : Flatten(args, kwargs)
    \/ SplitArgs
    \/ Dispatch
    \/ \E args \in CallbackArgs : CodeCallsBack(args)
    \/ \E v \in CodeVals : CodeEnds(v)
    \/ CodeRaises
    \/ EnterTry
    \/ WriteMarker
    \/ SendValue
    \/ Finally

UnitSpec == UnitInit /\ [][UnitNext]_vars

----------------------------------------------------------------------------
(* Claims.                                                                 *)

\* One response: one outcome marker, then one frame.
OneResponse == {<<"r", "frame">>, <<"e", "frame">>}

\* The tokens end with an e marker and its frame.
EndsWithError(out) ==
    /\ Len(out) >= 2
    /\ out[Len(out) - 1] = Mark("e")
    /\ out[Len(out)].t = "frame"

\* The handles of the a calls that are suspended in a callback.
InProgress == {pending[i].h : i \in {j \in 1..Len(pending) : pending[j].cmd = "a"}}

\* C1, as stated: a loop instance that has finished serving a command other
\* than q and r has written exactly one response for it, one outcome marker
\* followed by one frame, before it reads again.
C1_ExactlyOneResponse ==
    (ev.phase = "done" /\ ev.cmd \in {"e", "x", "f", "a", "R", "s", "?"})
        => ev.resp \in OneResponse

\* C2, as stated: an e, x, f, R or s command whose action raises, whatever
\* it raises, is answered e-marked by the loop instance that read it, and
\* that instance reads on at the same depth.
C2_AnyRaiseContained ==
    (ev.cmd \in {"e", "x", "f", "R", "s"} /\ ev.stage # "length" /\ ev.raised # "none")
        => /\ status = "running"
           /\ ev.phase = "done"
           /\ Depth = ev.at
           /\ EndsWithError(wrote)

\* C2, amended: an e, x, f, R or s command whose action raises an exception
\* of class Exception is answered e-marked by the loop instance that read
\* it; that instance reads on at the same depth, and the suspended
\* instances, async_results and async_handle are as they were when the
\* command was read, but for what the action did before it raised (the pop
\* of an R command, the bindings of an x or s command).
C2_ExceptionContained ==
    (ev.cmd \in {"e", "x", "f", "R", "s"} /\ ev.stage # "length" /\ ev.raised = "Exception")
        => /\ status = "running"
           /\ ev.phase = "done"
           /\ Depth = ev.at
           /\ EndsWithError(wrote)
           /\ ev.resp[Len(ev.resp)] = "frame" /\ ev.resp[Len(ev.resp) - 1] = "e"
           /\ ev.read = ev.cmd => Frames = ev.frames0
           /\ (ev.read = ev.cmd /\ ~ev.taken) => ev.kept
           /\ (ev.read = ev.cmd /\ ev.cmd \in {"e", "f", "R"}) => ev.nskept
           /\ ev.read = "r" => Frames = ev.frames0 - 1

\* C2, witness: a call that raised after its callback returned was answered
\* by the loop instance that had read it, below a nested one.
C2_Witness ==
    /\ ev.read = "r" /\ ev.cmd = "f" /\ ev.raised = "Exception"
    /\ ev.at = 2 /\ ev.frames0 = 3 /\ status = "running"

\* C3, as stated: while the worker runs, every handle the host has received
\* and not yet retrieved has an entry in async_results.
C3_HeldIsStored == status = "running" => held \subseteq DOMAIN async_results

\* C3, amended: the handle response of an a command is written before the
\* function is called, so while the call is suspended in a callback the
\* host has the handle and async_results has no entry for it; once the
\* call has ended, every handle the host has received and not yet
\* retrieved has an entry.
C3_StoredOnceCallEnds ==
    status = "running" =>
        /\ \A h \in held : h \in DOMAIN async_results \/ h \in InProgress
        /\ \A i \in 1..Len(pending) :
              pending[i].cmd = "a" =>
                  /\ pending[i].resp = <<"r", "frame">>
                  /\ pending[i].h \in held
                  /\ pending[i].h \notin DOMAIN async_results
        /\ (ev.cmd = "a" /\ ev.phase = "done" /\ ev.h >= 0) => ev.h \in DOMAIN async_results

\* C3, witness: an R command for a handle whose call is suspended in a
\* callback found no entry, and a later state holds the entry.
C3_Witness ==
    /\ status = "running"
    /\ ev.read = "R" /\ ev.h \in InProgress /\ ev.h \in held /\ ~ev.taken
    /\ \E h \in held : h \in DOMAIN async_results

\* The host had the handle of the step's R command when it sent it.
HadHandle == ev.h \in held \/ ev.taken

\* The frame of a str whose text is msg.
StrFrame(msg) == Frame(<<"\"">> \o Escape(msg) \o <<"\"">>)

\* What the worker writes in answer to a command whose result is v.
Answer(v) ==
    CASE v.k = "int" -> <<Mark("r"), Frame(IntStr(v.i))>>
      [] v.k = "Exception" -> <<Mark("e"), StrFrame(v.s)>>
      [] v.k = "ndarray0" -> <<Mark("r"), Mark("e"), StrFrame(IndexMsg)>>

\* C4, as stated: the first R command with a handle that an a command has
\* answered with takes the entry of that handle.
C4_FirstRetrieveTakes == (ev.read = "R" /\ HadHandle) => ev.taken

\* C4, amended: an a command answers with an r-marked handle that differs
\* from every handle issued before.  Once its call has ended with V,
\* async_results holds V under the handle; the first R command with the
\* handle served from then on removes the entry and answers as
\* return_value answers V.  An R command with a handle whose call has not
\* ended yet, whose entry has been removed or that was never issued is
\* answered e-marked with the text of the handle and leaves async_results
\* as it was.
C4_RetrieveOnceEnded ==
    /\ \A i, j \in 1..Len(issued) : i # j => issued[i] # issued[j]
    /\ (ev.read = "a" /\ ev.h >= 0) =>
           /\ SubSeq(ev.resp, 1, 2) = <<"r", "frame">>
           /\ issued[Len(issued)] = ev.h
           /\ SubSeq(wrote, 1, 2) = <<Mark("r"), Frame(IntStr(ev.h))>>
    /\ status = "running" => async_results = returned
    /\ (ev.read = "R" /\ ev.h >= 0) =>
           /\ ev.taken <=> ev.due
           /\ ev.due => /\ ev.val = ev.owed
                        /\ ev.h \notin DOMAIN async_results
                        /\ wrote = Answer(ev.owed)
           /\ ~ev.due => /\ ev.kept
                         /\ wrote = <<Mark("e"), StrFrame(IntStr(ev.h))>>

\* C4, witness: the R command for a handle whose call returned 5 was
\* answered with 5 by a nested loop instance, the result of another call
\* being stored still.
C4_Witness ==
    /\ ev.read = "R" /\ ev.taken /\ ev.owed = IntV(5)
    /\ wrote = <<Mark("r"), Frame(<<"5">>)>>
    /\ ev.h = 0 /\ 1 \in DOMAIN async_results /\ Depth = 2

\* C5, as stated: when the function of an a command raises, whatever it
\* raises, the command is answered with an r-marked handle only and what
\* was raised is stored under that handle.
C5_AnyRaiseStored ==
    (ev.cmd = "a" /\ ev.h >= 0 /\ ev.raised # "none")
        => /\ ev.resp = <<"r", "frame">>
           /\ ev.h \in DOMAIN async_results
           /\ async_results[ev.h].k = "Exception"

\* C5, amended: when the function of an a command raises an exception of
\* class Exception, the command is answered with an r-marked handle only,
\* the exception is stored under that handle and the worker reads on; an R
\* command that takes it is answered e-marked with the exception's text.
C5_ExceptionStored ==
    /\ (ev.cmd = "a" /\ ev.h >= 0 /\ ev.raised = "Exception")
           => /\ ev.resp = <<"r", "frame">>
              /\ status = "running" /\ ev.phase = "done"
              /\ ev.h \in DOMAIN async_results
              /\ async_results[ev.h] = ExcV(Boom)
    /\ (ev.cmd = "a" /\ ev.h >= 0) => \A j \in 1..Len(ev.resp) : ev.resp[j] # "e"
    /\ (ev.read = "R" /\ ev.taken /\ ev.owed.k = "Exception")
           => /\ ev.resp = <<"e", "frame">>
              /\ wrote = <<Mark("e"), StrFrame(ev.owed.s)>>

\* C5, witness: an R command took the exception that a function raised
\* after its callback had returned.
C5_Witness ==
    /\ ev.read = "R" /\ ev.taken /\ ev.owed = ExcV(Boom)
    /\ wrote = <<Mark("e"), Frame(<<"\"", "boom", "\"">>)>>

C7_ClosedInputTerminates == closed ~> (status # "running")

\* C8, as stated: with several callbacks pending, an r command returns to
\* the most recently started one, and when the call that made it ends, it
\* has got a single response (an a command the response its handle was).
C8_InnermostThenOneResponse ==
    (ev.read = "r" /\ ev.cmd # "r" /\ ev.frames0 >= 3)
        => /\ ev.at = ev.frames0 - 1
           /\ (ev.phase = "done" => ev.resp \in OneResponse)

\* C9, as stated: while the worker runs, a callback adds one loop instance,
\* every r command removes one, an r command read while a callback is
\* pending gets no response, and no other command changes the count.
C9_EveryReturnPops ==
    status = "running" =>
        /\ (ev.read # "r" /\ ev.phase = "callback") => Frames = ev.frames0 + 1
        /\ (ev.read = "r" /\ ev.phase = "done") => Frames = ev.frames0 - 1
        /\ (ev.read = "r" /\ ev.frames0 >= 2) => ev.cmd # "r"
        /\ (ev.read \notin {"r", ""} /\ ev.phase = "done") => Frames = ev.frames0

\* C9, amended: a callback adds one loop instance.  An r command whose
\* length line and payload are read removes one and gets no response of
\* its own: the call it returns to goes on.  An r command whose length line
\* or payload raises removes none and is answered e-marked.  No other
\* command changes the count while the worker runs.  The q command,
\* SystemExit raised by evaluated code and an r command read by the
\* outermost instance end the process and every instance with it.
C9_FrameAccounting ==
    /\ status = "running" =>
          /\ (ev.read # "r" /\ ev.phase = "callback") => Frames = ev.frames0 + 1
          /\ (ev.read = "r" /\ ev.cmd # "r") =>
                 /\ ev.at = ev.frames0 - 1
                 /\ Frames = ev.frames0 - 1 + (IF ev.phase = "callback" THEN 1 ELSE 0)
          /\ (ev.read = "r" /\ ev.cmd = "r") =>
                 /\ ev.stage \in {"length", "payload"}
                 /\ Frames = ev.frames0
                 /\ ev.resp = <<"e", "frame">>
          /\ (ev.read \notin {"r", ""} /\ ev.phase = "done") => Frames = ev.frames0
    /\ status # "running" =>
          /\ Frames = 0 /\ ev.phase = "end"
          /\ \/ ev.read = "q"
             \/ ev.raised = "SystemExit"
             \/ ev.read = "r" /\ ev.cmd = "r" /\ ev.frames0 = 1

\* C9, witness: with two callbacks pending, an r command whose payload
\* raised was answered and removed no instance; and one that was read
\* returned to the call at depth 2.
C9_Witness ==
    /\ status = "running" /\ ev.read = "r" /\ ev.frames0 = 3
    /\ \/ ev.cmd = "r" /\ ev.stage = "payload" /\ Frames = 3
       \/ ev.cmd = "f" /\ ev.phase = "done" /\ Frames = 2

\* C10: a name has the value the last s or x command bound it to, whatever
\* was served since and at whatever depth: an e command that evaluates the
\* name answers with that value, and one that evaluates the name + 1 with
\* that value plus one.
C10_NamespacePersists ==
    /\ eval_locals = bound
    /\ (ev.cmd = "e" /\ ev.expr = "name" /\ bound[ev.n] # Unbound)
           => /\ ev.val = bound[ev.n]
              /\ wrote = Answer(bound[ev.n])
    /\ (ev.cmd = "e" /\ ev.expr = "plus1" /\ bound[ev.n].k = "int")
           => /\ ev.val = IntV(bound[ev.n].i + 1)
              /\ wrote = <<Mark("r"), Frame(IntStr(bound[ev.n].i + 1))>>

\* C10, witness: x is 5 and, with two callbacks pending and a result
\* stored, the e command for x + 1 was answered with 6.
C10_Witness ==
    /\ ev.cmd = "e" /\ ev.expr = "plus1" /\ ev.n = "x" /\ bound["x"] = IntV(5)
    /\ wrote = <<Mark("r"), Frame(<<"6">>)>>
    /\ Depth = 3 /\ async_results # <<>>

\* C13, as stated: the encoding of a value, of whatever type and however
\* nested, never raises and is a text that is not empty.
C13_EncoderTotal == pc = "encoded" => (got.ok /\ got.text # <<>>)

\* C14, as stated: True encodes as T, None as NIL, the list [1,2] as
\* #(1 2), the tuple (1,2) as (1 2), the string a"b as "a\"b" and the
\* complex number 3+4i as #C(3 4).
C14_LiteralsWholeComplex ==
    pc = "encoded" =>
        /\ given = BoolV(TRUE) => got.text = <<"T">>
        /\ given = NoneV => got.text = <<"N", "I", "L">>
        /\ given = ListV(<<IntV(1), IntV(2)>>) => got.text = <<"#", "(", "1", " ", "2", ")">>
        /\ given = TupleV(<<IntV(1), IntV(2)>>) => got.text = <<"(", "1", " ", "2", ")">>
        /\ given = StrV(<<"a", "\"", "b">>) => got.text = <<"\"", "a", "\\", "\"", "b", "\"">>
        /\ given = ComplexV(3, 4) => got.text = <<"#", "C", "(", "3", " ", "4", ")">>

\* C14, amended: True encodes as T, None as NIL, the list [1,2] as #(1 2),
\* the tuple (1,2) as (1 2), the string a"b as "a\"b", and the complex
\* number 3+4i as #C(3.0 4.0): #C( + encode(re) + space + encode(im) + )
\* where re and im are the floats 3.0 and 4.0.
C14_Literals ==
    pc = "encoded" =>
        /\ given = BoolV(TRUE) => got = Encoded(<<"T">>)
        /\ given = NoneV => got = Encoded(<<"N", "I", "L">>)
        /\ given = ListV(<<IntV(1), IntV(2)>>) => got = Encoded(<<"#", "(", "1", " ", "2", ")">>)
        /\ given = TupleV(<<IntV(1), IntV(2)>>) => got = Encoded(<<"(", "1", " ", "2", ")">>)
        /\ given = StrV(<<"a", "\"", "b">>) => got = Encoded(<<"\"", "a", "\\", "\"", "b", "\"">>)
        /\ given = ComplexV(3, 4)
              => /\ got = Encoded(<<"#", "C", "(", "3", ".", "0", " ", "4", ".", "0", ")">>)
                 /\ got.text = <<"#", "C", "(">> \o lispify(FloatV(3)).text \o <<" ">>
                               \o lispify(FloatV(4)).text \o <<")">>

\* C14, witness: the complex number 3+4i has been encoded.
C14_Witness ==
    /\ pc = "encoded" /\ given = ComplexV(3, 4)
    /\ got.text = <<"#", "C", "(", "3", ".", "0", " ", "4", ".", "0", ")">>

\* C15: the characters written for the frame of a text (its decimal
\* length, a newline, the text and nothing after it) are read back by
\* recv_string as that text, and the read ends at the first character
\* after the text.
C15_FramingRoundTrip ==
    pc = "received" =>
        /\ got.ok
        /\ got.value = given.text
        /\ got.rest = given.rest

\* C15, witness: a text of a digit, a newline and a letter, followed in the
\* stream by a digit and a newline, has been read back; so has the text of
\* twelve characters.
C15_Witness ==
    /\ pc = "received"
    /\ \/ given = [text |-> <<"1", "\n", "a">>, rest |-> <<"1", "\n">>]
       \/ Len(given.text) = LongLen /\ given.rest = <<"e">>
    /\ got.value = given.text

\* C17, as stated: the flat sequence callback_func builds from positional
\* arguments and keyword arguments is split by the f/a branch into the same
\* positional arguments and the same keyword arguments.
C17_KeywordRoundTrip ==
    pc = "split" =>
        /\ got.ok
        /\ got.args = given.args
        /\ got.kwargs = given.kwargs

\* C11: a q command ends the process with exit code 0 (status "quit") and
\* nothing written, at every depth: the loop's handler writes no e-marked
\* response for it, every suspended loop instance is gone with the process,
\* and no step follows it.
C11_QuitIsSilent ==
    /\ [](ev.read = "q" =>
            /\ status = "quit"
            /\ ev.phase = "end"
            /\ ev.raised = "SystemExit"
            /\ wrote = <<>>
            /\ ev.resp = <<>>
            /\ pending = <<>>)
    /\ [][status = "quit" => FALSE]_vars

\* a q read by a loop instance that two pending callbacks are waiting on
C11_Witness ==
    /\ ev.read = "q"
    /\ ev.frames0 = MaxDepth
    /\ status = "quit"

\* C16: each handle an a command issues is strictly greater than every
\* handle issued before it, at any depth and whatever R has consumed, so no
\* handle is issued twice; the counter is past every handle issued.
C16_HandlesMonotonic ==
    /\ \A i, j \in 1..Len(issued) : i < j => issued[i] < issued[j]
    /\ \A i \in 1..Len(issued) : issued[i] < async_handle

\* a second handle issued by a nested loop instance after the first one
\* was consumed by R
C16_Witness ==
    /\ ev.read = "a"
    /\ ev.frames0 >= 2
    /\ Len(issued) = 2
    /\ issued[1] \notin held
    /\ issued[1] \notin DOMAIN async_results

C19_MarkerFollowsValue ==
    (ev.phase = "done" /\ ev.cmd \in {"e", "x", "f", "R", "s"}
       /\ ev.stage \in {"branch", "encode"})
        => ev.resp = IF (ev.stage = "branch" /\ ev.raised = "Exception")
                        \/ ev.val.k = "Exception"
                     THEN <<"e", "frame">>
                     ELSE <<"r", "frame">>

\* C20: an s command whose payload was received applies its pairs in
\* payload order up to the first malformed item.  Each name bound by a pair
\* before that item holds the value of the last such pair, every other name
\* is as the command found it, and no pair after the item is applied.  With
\* a malformed item the response is e-marked; with none, the response is
\* the r-marked value true.  The loop instance reads on either way.
C20_SetInOrder ==
    (ev.read = "s" /\ ev.stage = "branch") =>
        LET bad == {i \in 1..Len(ev.setlist) : ~ev.setlist[i].ok}
            stop == IF bad = {} THEN Len(ev.setlist) + 1
                    ELSE CHOOSE i \in bad : \A j \in bad : i <= j
            last(n) == {i \in 1..(stop - 1) :
                           /\ ev.setlist[i].n = n
                           /\ \A j \in (i + 1)..(stop - 1) : ev.setlist[j].n # n}
        IN  /\ \A n \in Names :
                  eval_locals[n] = IF last(n) = {} THEN ev.ns0[n]
                                   ELSE ev.setlist[CHOOSE i \in last(n) : TRUE].v
            /\ bad = {} => wrote = <<Mark("r"), Frame(<<"T">>)>>
            /\ bad # {} => wrote = <<Mark("e"), StrFrame(UnpackMsg)>>
            /\ status = "running"
            /\ ev.phase = "done"
            /\ Depth = ev.at

\* an s command whose second item is malformed has rebound the name of its
\* first pair, in a nested loop instance
C20_Witness ==
    /\ ev.read = "s"
    /\ Len(ev.setlist) = 2
    /\ ev.setlist[1].ok
    /\ ~ev.setlist[2].ok
    /\ eval_locals[ev.setlist[1].n] = ev.setlist[1].v
    /\ ev.ns0[ev.setlist[1].n] # ev.setlist[1].v
    /\ ev.frames0 >= 2
    /\ EndsWithError(wrote)

\* C12: while evaluated code runs, while a loop instance is blocked reading
\* and when a writer has been entered but has not yet reached its try
\* block, sys.stdout is the private buffer; it is the protocol stream only
\* between the first line of a writer's try block and its finally clause,
\* which restores the private buffer whether or not send_value raised.
C12_RedirectionScoped ==
    /\ pc \in {"start", "main", "reading", "evaluating", "try"}
          => sys_stdout = "redirect_stream"
    /\ sys_stdout = "write_stream" => pc \in {"marker", "send", "finally"}
    /\ pc \in {"marker", "send", "finally"} => sys_stdout = "write_stream"

\* return_value's send_value raised after the r marker, the finally clause
\* has restored the private buffer, and the handler is entering
\* return_error
C12_Witness ==
    /\ pc = "try"
    /\ given.fn = "return_error"
    /\ given.value = StrV(IndexMsg)
    /\ got = <<Mark("r")>>
    /\ sys_stdout = "redirect_stream"

====
